---- MODULE Spec2Model ----
(***************************************************************************)
(* Street-run game: the frame loop, the input handlers, the animation      *)
(* sequencer and the barrier / coin pools of GameCanvas, Obstacles.js,     *)
(* Coins and Player.                                                       *)
(*                                                                         *)
(* Lengths are fixed-point integers, 1000 units per world unit (so the     *)
(* barrier step speed*2 = 0.6 is 600).  Durations are milliseconds and     *)
(* velocities are length units per second.                                 *)
(*                                                                         *)
(* setGameState is modelled with the state it yields: the updaters queued   *)
(* during one handler are applied in order and the result is rendered       *)
(* before the next handler runs, and gameStateRef.current is that same      *)
(* object, so gameState below is both the React state and what the frame    *)
(* loop reads.  updateCoins writes coinCount into that object in place;     *)
(* what a queued updater then copies depends on when React runs it (at the  *)
(* setGameState call when the component has no update pending and React     *)
(* computes the state eagerly, else at the next render), so a frame takes   *)
(* either outcome.                                                          *)
(***************************************************************************)
EXTENDS Integers, Sequences, FiniteSets

(* ------------------------------------------------------------------ *)
(* Bounds of the exploration                                           *)
(* ------------------------------------------------------------------ *)
\* frames explored from an initial state
MaxTicks == 2
\* input events carrying an intent and load completions explored in one run
MaxEvents == 2
\* clicks on Restart explored in one run
MaxRestarts == 1
\* frames of one jump (at 50 ms a frame the jump lands in the 17th)
MaxJumpTicks == 18
\* road segments, buildings on each side and clouds loaded (3, 10 and 10 in the source)
roadCount == 2
buildingCount == 2
cloudCount == 2
\* loads started by one initObstacles (the loop bound MAX_BARRIERS, 10 in
\* Obstacles.js, scaled down)
MAX_BARRIERS == 2
\* loads started by one initCoins (maxCoins, 5 in the calls, scaled down)
maxCoins == 1

(* ------------------------------------------------------------------ *)
(* Program constants                                                   *)
(* ------------------------------------------------------------------ *)
LANE_OFFSETS == <<-3000, 1000, 5000>>
MIN_BARRIER_SPACING == 25000
FirstBarrierZ == -40000
RecycleZ == 10000
speed == 300
gravity == -20000
laneDistance == 4000
JumpVelocity == 8000
JumpDuration == 800
RollDuration == 1190

\* a default state whose active field is false
inactiveDefaultState ==
  [currentLane |-> 0, active |-> FALSE, isSliding |-> FALSE, coinCount |-> 0]

defaultGameState ==
  [currentLane |-> 0, active |-> TRUE, isSliding |-> FALSE, coinCount |-> 0]

\* values of clock.getDelta() explored, in ms
Deltas == {50, 100}
\* values of Math.random() explored, in thousandths
Randoms == {0, 999}
\* movement components of a drag event explored, in px
Movements == {-15, 0, 10, 15}
Directions == {-1, 0, 1}

\* Environment.js
roadSpacing == 800000
buildingSpacing == 80000
BuildingStartZ == -100000
cloudSpacing == 200000
cloudDepth == -200000
EnvRecycleZ == 50000
EnvRecycleBack == 800000

\* extents of the boxes Box3.setFromObject computes for the loaded models
PlayerHalfWidth == 500
PlayerHeight == 1500
CoinHalfSize == 300
CoinY == 1200

VARIABLES
  environment,       \* Environment.js roadSegments, leftBuildings, rightBuildings and the
                     \* clouds of the scene, each by its Z, and the model loads in flight
  mounted,           \* the component is mounted: the mount effect's cleanup has not run
  listening,         \* the keydown and resize listeners are registered on window
  initPc,            \* "loading": init awaits initPlayer; "running": animate loop runs
  playerRef,         \* playerRef.current / playAnimationRef.current are set
  playerPos,         \* player.position, [x, y]; z stays 0
  currentAnimation,  \* Player.js currentAnimation, by clip name
  gameActiveRef,
  gameState,
  isJumpingRef,
  isRollingRef,
  jumpVelocityRef,
  animationQueueRef,
  isAnimatingRef,
  timers,            \* pending setTimeout callbacks of processQueue, oldest first
  barriers,          \* Obstacles.js barriers, each [x, z]
  lastBarrierZ,      \* barrierState.lastBarrierZ
  barrierLoads,      \* barrier loads in flight
  coins,             \* Coins coins, each [x, z]
  coinLoads,         \* coin loads in flight, each the loop index i it closed over
  \* history
  collisions,        \* onCollision calls so far
  spawnLog,          \* spawn Z of every barrier placement since init / restart
  slotClash,         \* some placement was closer than the spacing to another barrier
  collectEvents,     \* collections since the last state reset
  epoch,             \* restarts so far
  ticks,
  events             \* inputs with an intent and load completions so far

vars == <<environment, mounted, listening, initPc, playerRef, playerPos, currentAnimation, gameActiveRef, gameState,
          isJumpingRef, isRollingRef, jumpVelocityRef, animationQueueRef,
          isAnimatingRef, timers, barriers, lastBarrierZ, barrierLoads, coins,
          coinLoads, collisions, spawnLog, slotClash,
          collectEvents, epoch, ticks, events>>

Max(a, b) == IF a >= b THEN a ELSE b
Min(a, b) == IF a <= b THEN a ELSE b
Abs(a) == IF a >= 0 THEN a ELSE -a

(* ------------------------------------------------------------------ *)
(* Animation sequencer (GameCanvas playAndResetAnimation/processQueue) *)
(* ------------------------------------------------------------------ *)
\* the refs the sequencer works on, as one record
Sequencer ==
  [queue |-> animationQueueRef, busy |-> isAnimatingRef, timers |-> timers,
   anim |-> currentAnimation]

\* playAnimation(name) when playAnimationRef.current was set, else nothing
playAnimation(anim, hasPlay, name) == IF hasPlay THEN name ELSE anim

\* processQueue(): dequeue the head, mark busy, play it, schedule its completion
processQueue(S, hasPlay, ep) ==
  IF S.busy \/ S.queue = <<>>
  THEN S
  ELSE LET e == Head(S.queue)
       IN [queue |-> Tail(S.queue),
           busy |-> TRUE,
           anim |-> playAnimation(S.anim, hasPlay, e.animationName),
           timers |-> Append(S.timers,
                        [animationName |-> e.animationName,
                         duration |-> e.duration,
                         onComplete |-> e.onComplete,
                         playAnimation |-> hasPlay,
                         epoch |-> ep])]

playAndResetAnimation(S, animationName, duration, onComplete, hasPlay, ep) ==
  processQueue([S EXCEPT !.queue = Append(@,
                  [animationName |-> animationName, duration |-> duration,
                   onComplete |-> onComplete])],
               hasPlay, ep)

\* a completion callback that leaves the busy flag set
completionKeepsBusy(S, t, hasPlay, ep) ==
  LET S1 == [S EXCEPT !.anim = playAnimation(@, t.playAnimation, "run")]
  IN processQueue(S1, hasPlay, ep)

\* the setTimeout callback of processQueue, run for the timer t
completion(S, t, hasPlay, ep) ==
  LET S1 == [S EXCEPT !.anim = playAnimation(@, t.playAnimation, "run"),
                      !.busy = FALSE]
  IN processQueue(S1, hasPlay, ep)

\* a timer may run once every earlier timer with no longer a delay has run
CanFire(i) ==
  /\ i \in 1..Len(timers)
  /\ \A j \in 1..(i - 1) : timers[j].duration > timers[i].duration

RemoveAt(s, i) == SubSeq(s, 1, i - 1) \o SubSeq(s, i + 1, Len(s))

(* ------------------------------------------------------------------ *)
(* Input: handleKeyDown and useGesture onDrag                          *)
(* ------------------------------------------------------------------ *)
\* lane updaters without the clamp
MoveLaneUnclamped(gs, h) ==
  IF h = "right" THEN [gs EXCEPT !.currentLane = @ + 1]
  ELSE IF h = "left" THEN [gs EXCEPT !.currentLane = @ - 1]
  ELSE gs

\* the currentLane updaters of both handlers
MoveLane(gs, h) ==
  IF h = "right" THEN [gs EXCEPT !.currentLane = Min(@ + 1, 1)]
  ELSE IF h = "left" THEN [gs EXCEPT !.currentLane = Max(@ - 1, -1)]
  ELSE gs

\* a guard that lets every jump and slide intent through
CanStartAlways == TRUE

\* the guard of the jump and of the slide branch
CanStart == ~isJumpingRef /\ ~isRollingRef

\* the effect of one event carrying the horizontal intent h and the vertical intent v
Handle(h, v) ==
  LET jump == v = "jump" /\ CanStart
      slide == v = "slide" /\ CanStart
      S == IF jump
           THEN playAndResetAnimation(Sequencer, "jump", JumpDuration, "none",
                                      playerRef, epoch)
           ELSE IF slide
           THEN playAndResetAnimation(Sequencer, "roll", RollDuration, "endSlide",
                                      playerRef, epoch)
           ELSE Sequencer
      gs == MoveLane(gameState, h)
  IN /\ gameState' = IF slide THEN [gs EXCEPT !.isSliding = TRUE] ELSE gs
     /\ isJumpingRef' = (isJumpingRef \/ jump)
     /\ isRollingRef' = (isRollingRef \/ slide)
     /\ jumpVelocityRef' = IF jump THEN JumpVelocity ELSE jumpVelocityRef
     /\ animationQueueRef' = S.queue
     /\ isAnimatingRef' = S.busy
     /\ timers' = S.timers
     /\ currentAnimation' = S.anim
     /\ events' = IF h = "none" /\ v = "none" THEN events ELSE events + 1
     /\ UNCHANGED <<environment, mounted, listening, initPc, playerRef, playerPos, gameActiveRef, barriers,
                    lastBarrierZ, barrierLoads, coins, coinLoads, spawnLog,
                    slotClash, collisions, collectEvents, epoch, ticks>>

\* the gameState handleKeyDown closed over: the listener is the one of the first
\* render (added once, in the mount effect), whose gameState is the initial state
KeyClosureState == defaultGameState

KeyIntentH(key) ==
  IF key = "ArrowLeft" THEN "left" ELSE IF key = "ArrowRight" THEN "right" ELSE "none"

KeyIntentV(key) ==
  IF key = "ArrowUp" THEN "jump" ELSE IF key = "ArrowDown" THEN "slide" ELSE "none"

\* runs while the listener init added is registered
handleKeyDown(key) ==
  /\ listening
  /\ events < MaxEvents
  /\ KeyClosureState.active
  /\ Handle(KeyIntentH(key), KeyIntentV(key))

DragThreshold == 10

\* a horizontal test that leaves out the comparison of the two axes
DragIntentHAnyAxis(mx, my, dx) ==
  IF Abs(mx) > DragThreshold
  THEN (IF dx > 0 THEN "right" ELSE IF dx < 0 THEN "left" ELSE "none")
  ELSE "none"

DragIntentH(mx, my, dx) ==
  IF Abs(mx) > DragThreshold /\ Abs(mx) > Abs(my)
  THEN (IF dx > 0 THEN "right" ELSE IF dx < 0 THEN "left" ELSE "none")
  ELSE "none"

DragIntentV(mx, my, dy) ==
  IF Abs(my) > DragThreshold /\ Abs(my) > Abs(mx)
  THEN (IF dy < 0 THEN "jump" ELSE IF dy > 0 THEN "slide" ELSE "none")
  ELSE "none"

\* the Draggable element exists while the component is mounted
onDrag(mx, my, dx, dy) ==
  /\ mounted
  /\ events < MaxEvents
  /\ Handle(DragIntentH(mx, my, dx), DragIntentV(mx, my, dy))

\* the drag events explored, and one of them for each pair of intents they carry (the
\* handler reads nothing else of the event)
Drags == Movements \X Movements \X Directions \X Directions

DragIntents(d) == <<DragIntentH(d[1], d[2], d[3]), DragIntentV(d[1], d[2], d[4])>>

DragSamples ==
  {CHOOSE d \in Drags : DragIntents(d) = in : in \in {DragIntents(d) : d \in Drags}}

\* the completion callback of the i-th pending timer
TimerFires(i) ==
  /\ CanFire(i)
  /\ LET t == timers[i]
         S == completion([Sequencer EXCEPT !.timers = RemoveAt(@, i)], t, playerRef,
                         epoch)
     IN /\ gameState' = IF t.onComplete = "endSlide"
                        THEN [gameState EXCEPT !.isSliding = FALSE]
                        ELSE gameState
        /\ isRollingRef' = IF t.onComplete = "endSlide" THEN FALSE ELSE isRollingRef
        /\ animationQueueRef' = S.queue
        /\ isAnimatingRef' = S.busy
        /\ timers' = S.timers
        /\ currentAnimation' = S.anim
  /\ UNCHANGED <<environment, mounted, listening, initPc, playerRef, playerPos, gameActiveRef, isJumpingRef,
                 jumpVelocityRef, barriers, lastBarrierZ, barrierLoads, coins,
                 coinLoads, spawnLog, slotClash, collisions, collectEvents, epoch, ticks,
                 events>>

(* ------------------------------------------------------------------ *)
(* Player kinematics (GameCanvas updatePlayer, Player.js playerUpdate) *)
(* ------------------------------------------------------------------ *)
\* d / 10 rounded toward zero: the fixed-point image of d * 0.1
Tenth(d) == IF d >= 0 THEN d \div 10 ELSE -((-d) \div 10)

\* updatePlayer(delta) with the velocity updated before the position
updatePlayerVelocityFirst(P, hasPlayer, delta) ==
  IF ~hasPlayer \/ ~P.jumping
  THEN P
  ELSE LET v1 == P.v + (gravity * delta) \div 1000
           y1 == P.y + (v1 * delta) \div 1000
       IN IF y1 <= 0
          THEN [y |-> 0, v |-> 0, jumping |-> FALSE,
                anim |-> playAnimation(P.anim, hasPlayer, "run")]
          ELSE [y |-> y1, v |-> v1, jumping |-> TRUE, anim |-> P.anim]

\* updatePlayer(delta) without the reset to ground level
updatePlayerNoReset(P, hasPlayer, delta) ==
  IF ~hasPlayer \/ ~P.jumping
  THEN P
  ELSE LET y1 == P.y + (P.v * delta) \div 1000
           v1 == P.v + (gravity * delta) \div 1000
       IN IF y1 <= 0
          THEN [y |-> y1, v |-> 0, jumping |-> FALSE,
                anim |-> playAnimation(P.anim, hasPlayer, "run")]
          ELSE [y |-> y1, v |-> v1, jumping |-> TRUE, anim |-> P.anim]

\* a lane movement that puts the player on the target at once
LaneStepSnap(x, lane) == lane * laneDistance

\* playerUpdate's lane movement: x += (targetX - x) * 0.1
LaneStep(x, lane) == x + Tenth(lane * laneDistance - x)

\* updatePlayer(delta) on [y, v, jumping, anim]
updatePlayer(P, hasPlayer, delta) ==
  IF ~hasPlayer \/ ~P.jumping
  THEN P
  ELSE LET y1 == P.y + (P.v * delta) \div 1000
           v1 == P.v + (gravity * delta) \div 1000
       IN IF y1 <= 0
          THEN [y |-> 0, v |-> 0, jumping |-> FALSE,
                anim |-> playAnimation(P.anim, hasPlayer, "run")]
          ELSE [y |-> y1, v |-> v1, jumping |-> TRUE, anim |-> P.anim]

(* ------------------------------------------------------------------ *)
(* Boxes                                                               *)
(* ------------------------------------------------------------------ *)
\* an intersection test that takes touching boxes as apart
intersectsBoxStrict(a, b) ==
  ~(\/ b.maxX <= a.minX \/ b.minX >= a.maxX
    \/ b.maxY <= a.minY \/ b.minY >= a.maxY
    \/ b.maxZ <= a.minZ \/ b.minZ >= a.maxZ)

\* THREE.Box3.intersectsBox: the boxes overlap or touch on every axis
intersectsBox(a, b) ==
  ~(\/ b.maxX < a.minX \/ b.minX > a.maxX
    \/ b.maxY < a.minY \/ b.minY > a.maxY
    \/ b.maxZ < a.minZ \/ b.minZ > a.maxZ)

\* a player box that is lower while the player slides
ObstaclePlayerBoxSliding(px, py) ==
  [minX |-> px - 500, maxX |-> px + 500,
   minY |-> py, maxY |-> py + (IF gameState.isSliding \/ isRollingRef THEN 400 ELSE 1500),
   minZ |-> 0 - 500, maxZ |-> 0 + 500]

\* playerBox of updateObstacles
ObstaclePlayerBox(px, py) ==
  [minX |-> px - 500, maxX |-> px + 500,
   minY |-> py, maxY |-> py + 1500,
   minZ |-> 0 - 500, maxZ |-> 0 + 500]

BarrierY == 500

\* barrierBox of updateObstacles
BarrierBox(b) ==
  [minX |-> b.x - 1000, maxX |-> b.x + 500,
   minY |-> BarrierY, maxY |-> BarrierY + 500,
   minZ |-> b.z - 1000, maxZ |-> b.z + 700]

\* new THREE.Box3().setFromObject(player) in updateCoins
CoinPlayerBox(px, py) ==
  [minX |-> px - PlayerHalfWidth, maxX |-> px + PlayerHalfWidth,
   minY |-> py, maxY |-> py + PlayerHeight,
   minZ |-> 0 - PlayerHalfWidth, maxZ |-> 0 + PlayerHalfWidth]

\* new THREE.Box3().setFromObject(coin)
CoinBox(c) ==
  [minX |-> c.x - CoinHalfSize, maxX |-> c.x + CoinHalfSize,
   minY |-> CoinY - CoinHalfSize, maxY |-> CoinY + CoinHalfSize,
   minZ |-> c.z - CoinHalfSize, maxZ |-> c.z + CoinHalfSize]

(* ------------------------------------------------------------------ *)
(* Obstacles.js                                                        *)
(* ------------------------------------------------------------------ *)
LaneSet == {LANE_OFFSETS[k] : k \in 1..Len(LANE_OFFSETS)}

\* the barrier at index i stands closer than the spacing to another barrier
TooClose(bs, i) ==
  \E j \in 1..Len(bs) : j /= i /\ Abs(bs[j].z - bs[i].z) < MIN_BARRIER_SPACING

\* a barrier step longer than the depth over which the two boxes overlap
BarrierStepLong == speed * 10

\* const speed = gameState.speed * 2: the step of a barrier per call
BarrierStep == speed * 2

\* the barriers a call of updateObstacles recycles
Recycled(bs) == {i \in 1..Len(bs) : bs[i].z + BarrierStep > RecycleZ}

\* a recycle that moves the cursor towards the player
RecycleCursorForward(cursor) == cursor + MIN_BARRIER_SPACING

\* the value lastBarrierZ gets when a barrier is recycled
RecycleCursor(cursor) == cursor - MIN_BARRIER_SPACING

\* the Z a recycled barrier gets
RecycleSpawnZ(cursor) == cursor - MIN_BARRIER_SPACING

\* a pass that also sends a barrier the player ran into back to the cursor
RECURSIVE obstacleLoopRecyclesHit(_, _, _, _, _)
obstacleLoopRecyclesHit(acc, i, lanes, px, py) ==
  IF i > Len(acc.barriers)
  THEN acc
  ELSE LET b == acc.barriers[i]
           z1 == b.z + BarrierStep
           rec == z1 > RecycleZ
           nb == IF rec
                 THEN [x |-> lanes[i], z |-> RecycleSpawnZ(acc.lastBarrierZ)]
                 ELSE [x |-> b.x, z |-> z1]
           hit == intersectsBox(ObstaclePlayerBox(px, py), BarrierBox(nb))
           back == rec \/ hit
           bs1 == [acc.barriers EXCEPT
                     ![i] = IF hit THEN [x |-> b.x, z |-> RecycleSpawnZ(acc.lastBarrierZ)]
                            ELSE nb]
       IN obstacleLoopRecyclesHit(
            [barriers |-> bs1,
             lastBarrierZ |-> IF back THEN RecycleCursor(acc.lastBarrierZ)
                              ELSE acc.lastBarrierZ,
             hits |-> acc.hits + (IF hit THEN 1 ELSE 0),
             spawnLog |-> IF back THEN Append(acc.spawnLog, bs1[i].z) ELSE acc.spawnLog,
             slotClash |-> acc.slotClash \/ (back /\ TooClose(bs1, i))],
            i + 1, lanes, px, py)

\* one pass of barriers.forEach from index i on; lanes[i] is the lane Math.random
\* picks for a recycled barrier
RECURSIVE obstacleLoop(_, _, _, _, _)
obstacleLoop(acc, i, lanes, px, py) ==
  IF i > Len(acc.barriers)
  THEN acc
  ELSE LET b == acc.barriers[i]
           z1 == b.z + BarrierStep
           rec == z1 > RecycleZ
           nb == IF rec
                 THEN [x |-> lanes[i], z |-> RecycleSpawnZ(acc.lastBarrierZ)]
                 ELSE [x |-> b.x, z |-> z1]
           bs1 == [acc.barriers EXCEPT ![i] = nb]
           hit == intersectsBox(ObstaclePlayerBox(px, py), BarrierBox(nb))
       IN obstacleLoop(
            [barriers |-> bs1,
             lastBarrierZ |-> IF rec THEN RecycleCursor(acc.lastBarrierZ)
                              ELSE acc.lastBarrierZ,
             hits |-> acc.hits + (IF hit THEN 1 ELSE 0),
             spawnLog |-> IF rec THEN Append(acc.spawnLog, nb.z) ELSE acc.spawnLog,
             slotClash |-> acc.slotClash \/ (rec /\ TooClose(bs1, i))],
            i + 1, lanes, px, py)

\* an obstacle update without the test of the player
updateObstaclesUnguarded(acc, hasPlayer, lanes, px, py) ==
  obstacleLoop(acc, 1, lanes, px, py)

\* an obstacle update that sends the barriers the player ran into back to the cursor
updateObstaclesRecyclesHit(acc, hasPlayer, lanes, px, py) ==
  IF ~hasPlayer THEN acc ELSE obstacleLoopRecyclesHit(acc, 1, lanes, px, py)

\* updateObstacles(scene, player, gameState, onCollision)
updateObstacles(acc, hasPlayer, lanes, px, py) ==
  IF ~hasPlayer THEN acc ELSE obstacleLoop(acc, 1, lanes, px, py)

\* the Z the load callback of initObstacles places its barrier at
LoadSpawnZ(cursor) == cursor

\* the value lastBarrierZ gets in the load callback
LoadCursor(cursor) == cursor - MIN_BARRIER_SPACING

(* ------------------------------------------------------------------ *)
(* Coins                                                               *)
(* ------------------------------------------------------------------ *)
CoinLanes == {-1, 0, 1}

\* (Math.floor(Math.random() * 3) - 1) * 4
CoinX(lane) == lane * 4000

\* -50 - Math.random() * 50
CoinRecycleZ(r) == -50000 - r * 50

\* -i * 15 - Math.random() * 10
CoinInitZ(i, r) == 0 - i * 15000 - r * 10

CoinChoices == CoinLanes \X Randoms

\* the pairs explored for a coin's load callback: any lane, at the near end of its
\* slot (the far end keeps the coin out of reach of the player for the whole run)
CoinLoadChoices == CoinLanes \X {0}

\* the coin after the move and the recycle test; pick is the random pair drawn
coinMove(c, pick) ==
  LET z1 == c.z + speed * 2
  IN IF z1 > RecycleZ
     THEN [x |-> CoinX(pick[1]), z |-> CoinRecycleZ(pick[2])]
     ELSE [x |-> c.x, z |-> z1]

CoinsRecycled(cs) == {i \in 1..Len(cs) : cs[i].z + speed * 2 > RecycleZ}

coinHit(c, px, py) == intersectsBox(CoinPlayerBox(px, py), CoinBox(c))

\* a collection branch that places the coin behind the obstacle spacing cursor
coinCollectAtCursor(c, pick) ==
  [x |-> CoinX(pick[1]), z |-> lastBarrierZ - MIN_BARRIER_SPACING]

\* the coin after the collection branch
coinCollect(c, pick) == [x |-> CoinX(pick[1]), z |-> CoinRecycleZ(pick[2])]

NoPick == <<0, 0>>

\* the coins after the move and the recycle test of each; rc[i] is the pair drawn for
\* the recycled coin i
CoinsMoved(cs, rc) ==
  [i \in 1..Len(cs) |-> coinMove(cs[i], IF i \in DOMAIN rc THEN rc[i] ELSE NoPick)]

\* the coins whose box then intersects the player's
CoinsHit(moved, px, py) == {i \in 1..Len(moved) : coinHit(moved[i], px, py)}

\* a coin update that takes the collected coins out of the pool
updateCoinsRemoving(cs, hasPlayer, px, py, rc, cc) ==
  IF ~hasPlayer THEN cs
  ELSE SelectSeq(CoinsMoved(cs, rc), LAMBDA c : ~coinHit(c, px, py))

\* updateCoins(scene, player, gameState, updateUI, delta) on the pool; cc[i] is the
\* pair drawn for the collected coin i
updateCoins(cs, hasPlayer, px, py, rc, cc) ==
  IF ~hasPlayer THEN cs
  ELSE LET moved == CoinsMoved(cs, rc)
       IN [i \in 1..Len(cs) |->
             IF i \in CoinsHit(moved, px, py) THEN coinCollect(moved[i], cc[i])
             ELSE moved[i]]

(* ------------------------------------------------------------------ *)
(* Environment.js                                                      *)
(* ------------------------------------------------------------------ *)
RoadIndices == 0..(roadCount - 1)
BuildingIndices == 0..(buildingCount - 1)
CloudIndices == 0..(cloudCount - 1)

\* the Z the load callbacks place the i-th road, pair of buildings and cloud at
RoadZ(i) == 0 - i * roadSpacing
BuildingZ(i) == BuildingStartZ - i * buildingSpacing
CloudZ(i) == cloudDepth - i * cloudSpacing

\* the module before initEnvironment ran
EnvNotStarted ==
  [roadSegments |-> <<>>, leftBuildings |-> <<>>, rightBuildings |-> <<>>,
   clouds |-> <<>>, roadLoads |-> {}, buildingLoads |-> {}, cloudLoads |-> {}]

\* initEnvironment: createRoad, createBuildings and createClouds start one load for
\* each index
initEnvironment(E) ==
  [E EXCEPT !.roadLoads = RoadIndices, !.buildingLoads = BuildingIndices,
            !.cloudLoads = CloudIndices]

\* a move that tests the threshold before it moves
envMoveTestFirst(z, step, back) ==
  IF z > EnvRecycleZ THEN z + step - back ELSE z + step

\* an entity moved by step and sent back by back once it is past the threshold
envMove(z, step, back) ==
  LET z1 == z + step IN IF z1 > EnvRecycleZ THEN z1 - back ELSE z1

\* a cloud step as large as the step of the road
CloudStepFull(sp) == sp

\* the step of a cloud, speed / 4 of the local speed = gameState.speed * 2
CloudStep(sp) == sp \div 4

\* updateEnvironment(scene, gameState) on the Z of every entity
updateEnvironment(E) ==
  [E EXCEPT
     !.roadSegments = [i \in 1..Len(@) |->
                         envMove(@[i], speed * 2, EnvRecycleBack * Len(@))],
     !.leftBuildings = [i \in 1..Len(@) |-> envMove(@[i], speed * 2, EnvRecycleBack)],
     !.rightBuildings = [i \in 1..Len(@) |-> envMove(@[i], speed * 2, EnvRecycleBack)],
     !.clouds = [i \in 1..Len(@) |->
                   envMove(@[i], CloudStep(speed * 2), EnvRecycleBack)]]

EnvUnchanged ==
  UNCHANGED <<mounted, listening, initPc, playerRef, playerPos, currentAnimation,
              gameActiveRef, gameState, isJumpingRef, isRollingRef, jumpVelocityRef,
              animationQueueRef, isAnimatingRef, timers, barriers, lastBarrierZ,
              barrierLoads, coins, coinLoads, collisions, spawnLog, slotClash,
              collectEvents, epoch, ticks, events>>

\* the success callbacks of the road, building and cloud loads with loop index i
RoadLoaded(i) ==
  /\ i \in environment.roadLoads
  /\ environment' = [environment EXCEPT !.roadLoads = @ \ {i},
                                        !.roadSegments = Append(@, RoadZ(i))]
  /\ EnvUnchanged

BuildingLoaded(i) ==
  /\ i \in environment.buildingLoads
  /\ environment' = [environment EXCEPT !.buildingLoads = @ \ {i},
                                        !.leftBuildings = Append(@, BuildingZ(i)),
                                        !.rightBuildings = Append(@, BuildingZ(i))]
  /\ EnvUnchanged

CloudLoaded(i) ==
  /\ i \in environment.cloudLoads
  /\ environment' = [environment EXCEPT !.cloudLoads = @ \ {i},
                                        !.clouds = Append(@, CloudZ(i))]
  /\ EnvUnchanged

\* the error callbacks of those loads
EnvLoadFailed ==
  /\ \/ \E i \in environment.roadLoads :
          environment' = [environment EXCEPT !.roadLoads = @ \ {i}]
     \/ \E i \in environment.buildingLoads :
          environment' = [environment EXCEPT !.buildingLoads = @ \ {i}]
     \/ \E i \in environment.cloudLoads :
          environment' = [environment EXCEPT !.cloudLoads = @ \ {i}]
  /\ EnvUnchanged

(* ------------------------------------------------------------------ *)
(* The frame loop (GameCanvas animate)                                 *)
(* ------------------------------------------------------------------ *)

\* a collision callback that leaves the React state as it is
onCollisionKeepsState(gs) == gs

\* a collision callback that flips the flag instead of clearing it
onCollisionToggles(gs) == [gs EXCEPT !.active = ~@]

\* what onCollision does to the React state
onCollisionState(gs) == [gs EXCEPT !.active = FALSE]

\* the React state after the k updaters that k invocations of onCollision queue
RECURSIVE onCollisionCalls(_, _)
onCollisionCalls(gs, k) ==
  IF k = 0 THEN gs ELSE onCollisionCalls(onCollisionState(gs), k - 1)

\* the increments of coinCount the state of the next render keeps, of the n made in
\* place during a frame whose collision callback ran hits times: all of them when the
\* updaters run at the render; when the first setGameState of the frame is computed at
\* its call, those made before that call (none before the collision callback, which
\* precedes updateCoins, else the one before the first updateUI)
CountsKept(hits, n) == {n, IF hits > 0 THEN 0 ELSE Min(n, 1)}

\* the player position of the previous frame
PositionBeforeFrame(before, after) == before

\* the player position updateObstacles and updateCoins read from the player object:
\* animate calls them after updatePlayer and playerUpdate have written it
PositionTested(before, after) == after

\* the body of animate under gameActiveRef.current, for the frame time delta, the lanes
\* drawn for recycled barriers and the pairs drawn for recycled (rc) and collected (cc)
\* coins
ActiveFrame(delta, lanes, rc) ==
  LET P == updatePlayer([y |-> playerPos.y, v |-> jumpVelocityRef,
                         jumping |-> isJumpingRef, anim |-> currentAnimation],
                        playerRef, delta)
      x1 == IF playerRef THEN LaneStep(playerPos.x, gameState.currentLane)
            ELSE playerPos.x
      T == PositionTested(playerPos, [x |-> x1, y |-> P.y])
      O == updateObstacles([barriers |-> barriers, lastBarrierZ |-> lastBarrierZ,
                            hits |-> 0, spawnLog |-> spawnLog,
                            slotClash |-> slotClash],
                           playerRef, lanes, T.x, T.y)
      hitSet == IF playerRef THEN CoinsHit(CoinsMoved(coins, rc), T.x, T.y) ELSE {}
      gs1 == onCollisionCalls(gameState, O.hits)
  IN /\ playerPos' = [x |-> x1, y |-> P.y]
     /\ environment' = updateEnvironment(environment)
     /\ jumpVelocityRef' = P.v
     /\ isJumpingRef' = P.jumping
     /\ currentAnimation' = P.anim
     /\ barriers' = O.barriers
     /\ lastBarrierZ' = O.lastBarrierZ
     /\ spawnLog' = O.spawnLog
     /\ slotClash' = O.slotClash
     /\ collisions' = collisions + O.hits
     /\ gameActiveRef' = (O.hits = 0)
     /\ \E cc \in [hitSet -> CoinChoices] :
          /\ coins' = updateCoins(coins, playerRef, T.x, T.y, rc, cc)
          /\ \E kept \in CountsKept(O.hits, Cardinality(hitSet)) :
               gameState' = [gs1 EXCEPT !.coinCount = @ + kept]
          /\ collectEvents' = collectEvents + Cardinality(hitSet)

\* a run of animate that does not test gameActiveRef
FrameUngated(budget) ==
  /\ initPc = "running"
  /\ ticks < budget
  /\ ticks' = ticks + 1
  /\ IF TRUE
     THEN \E delta \in Deltas :
               \E lanes \in [IF playerRef THEN Recycled(barriers) ELSE {} -> LaneSet] :
                 \E rc \in [IF playerRef THEN CoinsRecycled(coins) ELSE {}
                            -> CoinChoices] :
                   ActiveFrame(delta, lanes, rc)
     ELSE UNCHANGED <<environment, playerPos, jumpVelocityRef, isJumpingRef, currentAnimation,
                         barriers, lastBarrierZ, spawnLog, slotClash, collisions, gameActiveRef,
                         coins, gameState, collectEvents>>
  /\ UNCHANGED <<mounted, listening, initPc, playerRef, isRollingRef, animationQueueRef,
                 isAnimatingRef, timers, barrierLoads, coinLoads, epoch, events>>

\* one run of animate, of at most budget runs
Frame(budget) ==
  /\ initPc = "running"
  /\ ticks < budget
  /\ ticks' = ticks + 1
  /\ IF gameActiveRef
     THEN \E delta \in Deltas :
               \E lanes \in [IF playerRef THEN Recycled(barriers) ELSE {} -> LaneSet] :
                 \E rc \in [IF playerRef THEN CoinsRecycled(coins) ELSE {}
                            -> CoinChoices] :
                   ActiveFrame(delta, lanes, rc)
     ELSE UNCHANGED <<environment, playerPos, jumpVelocityRef, isJumpingRef, currentAnimation,
                         barriers, lastBarrierZ, spawnLog, slotClash, collisions, gameActiveRef,
                         coins, gameState, collectEvents>>
  /\ UNCHANGED <<mounted, listening, initPc, playerRef, isRollingRef, animationQueueRef,
                 isAnimatingRef, timers, barrierLoads, coinLoads, epoch, events>>

Tick == Frame(MaxTicks)

(* ------------------------------------------------------------------ *)
(* Asset loads                                                         *)
(* ------------------------------------------------------------------ *)
CoinIndices == 0..(maxCoins - 1)

\* the loads one initObstacles / initCoins call starts
StartBarrierLoads(n) == n + MAX_BARRIERS
StartCoinLoads(f) == [i \in CoinIndices |-> f[i] + 1]

\* the success callback of a barrier load
BarrierLoaded(lane) ==
  /\ events < MaxEvents
  /\ events' = events + 1
  /\ barrierLoads > 0
  /\ barrierLoads' = barrierLoads - 1
  /\ LET nb == [x |-> lane, z |-> LoadSpawnZ(lastBarrierZ)]
         bs1 == Append(barriers, nb)
     IN /\ barriers' = bs1
        /\ spawnLog' = Append(spawnLog, nb.z)
        /\ slotClash' = (slotClash \/ TooClose(bs1, Len(bs1)))
  /\ lastBarrierZ' = LoadCursor(lastBarrierZ)
  /\ UNCHANGED <<environment, mounted, listening, initPc, playerRef, playerPos, currentAnimation, gameActiveRef,
                 gameState, isJumpingRef, isRollingRef, jumpVelocityRef,
                 animationQueueRef, isAnimatingRef, timers, coins, coinLoads,
                 collisions, collectEvents, epoch, ticks>>

\* an error callback that gives up the slot of the barrier that failed to load
BarrierLoadFailedSkipsSlot ==
  /\ events < MaxEvents
  /\ events' = events + 1
  /\ barrierLoads > 0
  /\ barrierLoads' = barrierLoads - 1
  /\ lastBarrierZ' = LoadCursor(lastBarrierZ)
  /\ UNCHANGED <<environment, mounted, listening, initPc, playerRef, playerPos, currentAnimation,
                 gameActiveRef, gameState, isJumpingRef, isRollingRef, jumpVelocityRef,
                 animationQueueRef, isAnimatingRef, timers, barriers, coins, coinLoads,
                 spawnLog, slotClash, collisions, collectEvents, epoch, ticks>>

\* the error callback of a barrier load
BarrierLoadFailed ==
  /\ events < MaxEvents
  /\ events' = events + 1
  /\ barrierLoads > 0
  /\ barrierLoads' = barrierLoads - 1
  /\ UNCHANGED <<environment, mounted, listening, initPc, playerRef, playerPos, currentAnimation, gameActiveRef,
                 gameState, isJumpingRef, isRollingRef, jumpVelocityRef,
                 animationQueueRef, isAnimatingRef, timers, barriers, lastBarrierZ,
                 coins, coinLoads, spawnLog, slotClash, collisions, collectEvents, epoch, ticks>>

\* the success callback of the coin load with loop index i
CoinLoaded(i, pick) ==
  /\ events < MaxEvents
  /\ events' = events + 1
  /\ coinLoads[i] > 0
  /\ coinLoads' = [coinLoads EXCEPT ![i] = @ - 1]
  /\ coins' = Append(coins, [x |-> CoinX(pick[1]), z |-> CoinInitZ(i, pick[2])])
  /\ UNCHANGED <<environment, mounted, listening, initPc, playerRef, playerPos, currentAnimation, gameActiveRef,
                 gameState, isJumpingRef, isRollingRef, jumpVelocityRef,
                 animationQueueRef, isAnimatingRef, timers, barriers, lastBarrierZ,
                 barrierLoads, spawnLog, slotClash, collisions, collectEvents, epoch, ticks>>

\* the error callback of a coin load
CoinLoadFailed(i) ==
  /\ events < MaxEvents
  /\ events' = events + 1
  /\ coinLoads[i] > 0
  /\ coinLoads' = [coinLoads EXCEPT ![i] = @ - 1]
  /\ UNCHANGED <<environment, mounted, listening, initPc, playerRef, playerPos, currentAnimation, gameActiveRef,
                 gameState, isJumpingRef, isRollingRef, jumpVelocityRef,
                 animationQueueRef, isAnimatingRef, timers, barriers, lastBarrierZ,
                 barrierLoads, coins, spawnLog, slotClash, collisions, collectEvents, epoch,
                 ticks>>

(* ------------------------------------------------------------------ *)
(* init (mount effect): the part after `await initPlayer`              *)
(* ------------------------------------------------------------------ *)
\* barrierState.lastBarrierZ = -40 - barriers.length * MIN_BARRIER_SPACING
CursorFor(bs) == FirstBarrierZ - Len(bs) * MIN_BARRIER_SPACING

\* initPlayer settled (ok: resolved, else rejected); init then clears the pools, starts
\* the loads, adds the listeners and runs the first frame, whose clock delta is 0
InitContinues(ok) ==
  /\ initPc = "loading"
  /\ initPc' = "running"
  /\ listening' = TRUE
  /\ environment' = initEnvironment(environment)
  /\ playerRef' = ok
  /\ LET P == updatePlayer([y |-> 0, v |-> jumpVelocityRef, jumping |-> isJumpingRef,
                            anim |-> playAnimation(currentAnimation, ok, "run")],
                           ok, 0)
     IN /\ playerPos' = [x |-> IF ok THEN LaneStep(0, gameState.currentLane) ELSE 0,
                         y |-> P.y]
        /\ jumpVelocityRef' = P.v
        /\ isJumpingRef' = P.jumping
        /\ currentAnimation' = P.anim
  /\ barriers' = <<>>
  /\ coins' = <<>>
  /\ barrierLoads' = StartBarrierLoads(barrierLoads)
  /\ lastBarrierZ' = CursorFor(<<>>)
  /\ coinLoads' = StartCoinLoads(coinLoads)
  /\ spawnLog' = <<>>
  /\ UNCHANGED <<mounted, gameActiveRef, gameState, isRollingRef, animationQueueRef,
                 isAnimatingRef, timers, slotClash, collisions, collectEvents, epoch, ticks,
                 events>>

PlayerLoaded == InitContinues(TRUE)
PlayerLoadFailed == InitContinues(FALSE)

(* ------------------------------------------------------------------ *)
(* UI commands                                                         *)
(* ------------------------------------------------------------------ *)
\* a restart that leaves the busy flag as it finds it
RestartBusyKept(b) == b

\* what restartGame leaves of the sequencer refs and of the pending timers (it does
\* not call clearTimeout)
RestartQueue(q) == <<>>
RestartBusy(b) == FALSE
RestartTimers(ts) == ts

\* a restart that leaves the player where it is
RestartPositionKept(p) == p

\* player.position.set(0, 0, 0)
RestartPosition(p) == [x |-> 0, y |-> 0]

\* Restart is rendered while gameState.active is false
restartGame ==
  /\ mounted
  /\ initPc = "running"
  /\ ~gameState.active
  /\ epoch < MaxRestarts
  /\ epoch' = epoch + 1
  /\ gameActiveRef' = TRUE
  /\ gameState' = defaultGameState
  /\ animationQueueRef' = RestartQueue(animationQueueRef)
  /\ isAnimatingRef' = RestartBusy(isAnimatingRef)
  /\ timers' = RestartTimers(timers)
  /\ IF playerRef
     THEN /\ playerPos' = RestartPosition(playerPos)
          /\ isJumpingRef' = FALSE
          /\ isRollingRef' = FALSE
          /\ jumpVelocityRef' = 0
          /\ currentAnimation' = playAnimation(currentAnimation, playerRef, "run")
     ELSE UNCHANGED <<playerPos, isJumpingRef, isRollingRef, jumpVelocityRef,
                      currentAnimation>>
  /\ barriers' = <<>>
  /\ coins' = <<>>
  /\ barrierLoads' = StartBarrierLoads(barrierLoads)
  /\ lastBarrierZ' = CursorFor(<<>>)
  /\ coinLoads' = StartCoinLoads(coinLoads)
  /\ spawnLog' = <<>>
  /\ collectEvents' = 0
  /\ UNCHANGED <<environment, mounted, listening, initPc, playerRef, slotClash, collisions, ticks, events>>

\* Exit Game is rendered while gameState.active is false
handleExitGame ==
  /\ mounted
  /\ initPc = "running"
  /\ ~gameState.active
  /\ gameState' = defaultGameState
  /\ collectEvents' = 0
  /\ UNCHANGED <<environment, mounted, listening, initPc, playerRef, playerPos, currentAnimation, gameActiveRef,
                 isJumpingRef, isRollingRef, jumpVelocityRef, animationQueueRef,
                 isAnimatingRef, timers, barriers, lastBarrierZ, barrierLoads, coins,
                 coinLoads, spawnLog, slotClash, collisions, epoch, ticks, events>>

(* ------------------------------------------------------------------ *)
(* Initial states                                                      *)
(* ------------------------------------------------------------------ *)
\* the component right after mount: init awaits the player model
Mounted ==
  /\ initPc = "loading"
  /\ playerRef = FALSE
  /\ playerPos = [x |-> 0, y |-> 0]
  /\ currentAnimation = "none"
  /\ barriers = <<>>
  /\ lastBarrierZ = FirstBarrierZ
  /\ barrierLoads = 0
  /\ coinLoads = [i \in CoinIndices |-> 0]
  /\ coins = <<>>
  /\ spawnLog = <<>>

\* the pool after the first Len(lanes) barrier loads completed, before any frame
RECURSIVE AfterLoads(_)
AfterLoads(lanes) ==
  IF lanes = <<>>
  THEN [barriers |-> <<>>, lastBarrierZ |-> CursorFor(<<>>), hits |-> 0,
        spawnLog |-> <<>>, slotClash |-> FALSE]
  ELSE LET acc == AfterLoads(SubSeq(lanes, 1, Len(lanes) - 1))
           nb == [x |-> lanes[Len(lanes)], z |-> LoadSpawnZ(acc.lastBarrierZ)]
       IN [acc EXCEPT !.barriers = Append(@, nb),
                      !.lastBarrierZ = LoadCursor(@),
                      !.spawnLog = Append(@, nb.z)]

\* the pool after n more frames with the player resting at the origin
RECURSIVE AfterFrames(_, _)
AfterFrames(acc, n) ==
  IF n = 0 \/ acc.hits > 0 THEN acc
  ELSE AfterFrames(updateObstacles(acc, TRUE, <<>>, 0, 0), n - 1)

\* a coin n frames after its load, away from the player's lane
RECURSIVE CoinAfterFrames(_, _)
CoinAfterFrames(c, n) ==
  IF n = 0 THEN c ELSE CoinAfterFrames(coinMove(c, NoPick), n - 1)

\* runs without input in which one barrier load completed before the first frame and
\* the other barrier loads are still in flight, by the frames run and the lane drawn:
\* the barrier (placed at -40, 0.6 per frame) is two frames or one frame short of the
\* player's box in the player's lane, or one frame short of the recycle threshold.
\* coinFrames is the number of frames since the load of coin 0 completed (in lane 1, at
\* z = 0; 16 frames later it is one frame short of its recycle threshold), or -1 with
\* the coin loads still in flight
WarmStarts ==
  {[frames |-> 63, lane |-> LANE_OFFSETS[2], coinFrames |-> -1],
   [frames |-> 64, lane |-> LANE_OFFSETS[2], coinFrames |-> 16],
   [frames |-> 83, lane |-> LANE_OFFSETS[3], coinFrames |-> -1]}

WarmedAt(w) ==
  LET acc == AfterFrames(AfterLoads(<<w.lane>>), w.frames)
  IN /\ acc.hits = 0
     /\ initPc = "running"
     /\ playerRef = TRUE
     /\ playerPos = [x |-> 0, y |-> 0]
     /\ currentAnimation = "run"
     /\ barriers = acc.barriers
     /\ lastBarrierZ = acc.lastBarrierZ
     /\ barrierLoads = MAX_BARRIERS - 1
     /\ coinLoads = [i \in CoinIndices |-> IF i = 0 /\ w.coinFrames >= 0 THEN 0 ELSE 1]
     /\ coins = IF w.coinFrames >= 0
                THEN <<CoinAfterFrames([x |-> CoinX(1), z |-> CoinInitZ(0, 0)],
                                       w.coinFrames)>>
                ELSE <<>>
     /\ spawnLog = acc.spawnLog

Warmed == \E w \in WarmStarts : WarmedAt(w)

\* what holds of the refs and of the history right after mount and in a run without
\* input
Untouched ==
  /\ mounted = TRUE
  /\ listening = (initPc = "running")
  /\ gameActiveRef = TRUE
  /\ gameState = defaultGameState
  /\ isJumpingRef = FALSE
  /\ isRollingRef = FALSE
  /\ jumpVelocityRef = 0
  /\ animationQueueRef = <<>>
  /\ isAnimatingRef = FALSE
  /\ timers = <<>>
  /\ collisions = 0
  /\ slotClash = FALSE
  /\ collectEvents = 0
  /\ epoch = 0
  /\ ticks = 0
  /\ events = 0

\* the environment of the runs of Init: initEnvironment has run once init continued,
\* and its model loads are in flight
Init ==
  /\ Mounted \/ Warmed
  /\ environment = IF initPc = "loading" THEN EnvNotStarted
                   ELSE initEnvironment(EnvNotStarted)
  /\ Untouched

Keys == {"ArrowLeft", "ArrowRight", "ArrowUp", "ArrowDown"}

Next ==
  \/ PlayerLoaded
  \/ PlayerLoadFailed
  \/ \E key \in Keys : handleKeyDown(key)
  \/ \E d \in DragSamples : onDrag(d[1], d[2], d[3], d[4])
  \/ \E i \in 1..Len(timers) : TimerFires(i)
  \/ Tick
  \/ \E lane \in LaneSet : BarrierLoaded(lane)
  \/ BarrierLoadFailed
  \/ \E i \in CoinIndices : \E pick \in CoinLoadChoices : CoinLoaded(i, pick)
  \/ \E i \in CoinIndices : CoinLoadFailed(i)
  \/ restartGame
  \/ handleExitGame

Spec == Init /\ [][Next]_vars

(* ------------------------------------------------------------------ *)
(* One jump                                                            *)
(* ------------------------------------------------------------------ *)
\* the running game right after the jump branch of an input handler ran, in any lane,
\* with the loads of the pools in flight
JumpStarted ==
  LET S == playAndResetAnimation([queue |-> <<>>, busy |-> FALSE, timers |-> <<>>,
                                  anim |-> "run"],
                                 "jump", JumpDuration, "none", TRUE, 0)
  IN /\ environment = initEnvironment(EnvNotStarted)
     /\ mounted = TRUE
     /\ listening = TRUE
     /\ initPc = "running"
     /\ playerRef = TRUE
     /\ \E lane \in {-1, 0, 1} :
          /\ gameState = [defaultGameState EXCEPT !.currentLane = lane]
          /\ playerPos = [x |-> lane * laneDistance, y |-> 0]
     /\ gameActiveRef = TRUE
     /\ isJumpingRef = TRUE
     /\ isRollingRef = FALSE
     /\ jumpVelocityRef = JumpVelocity
     /\ animationQueueRef = S.queue
     /\ isAnimatingRef = S.busy
     /\ timers = S.timers
     /\ currentAnimation = S.anim
     /\ barriers = <<>>
     /\ lastBarrierZ = CursorFor(<<>>)
     /\ barrierLoads = MAX_BARRIERS
     /\ coins = <<>>
     /\ coinLoads = [i \in CoinIndices |-> 1]
     /\ collisions = 0
     /\ spawnLog = <<>>
     /\ slotClash = FALSE
     /\ collectEvents = 0
     /\ epoch = 0
     /\ ticks = 0
     /\ events = 1

JumpTick == Frame(MaxJumpTicks)

NextJump ==
  \/ JumpTick
  \/ \E i \in 1..Len(timers) : TimerFires(i)

\* animate requests its next run at the end of every run
SpecJump == JumpStarted /\ [][NextJump]_vars /\ WF_vars(JumpTick)

(* ------------------------------------------------------------------ *)
(* Lane changes                                                        *)
(* ------------------------------------------------------------------ *)
\* the x of a player that started at 0 and was moved by at most two frames, each
\* towards one of the three lanes
LaneWalks ==
  {0} \cup {LaneStep(0, l) : l \in {-1, 0, 1}}
      \cup {LaneStep(LaneStep(0, l), k) : l, k \in {-1, 0, 1}}

\* a running game without input so far but lane changes, its pools still loading
LaneInit ==
  /\ environment = initEnvironment(EnvNotStarted)
  /\ mounted = TRUE
  /\ listening = TRUE
  /\ initPc = "running"
  /\ playerRef = TRUE
  /\ \E lane \in {-1, 0, 1} : gameState = [defaultGameState EXCEPT !.currentLane = lane]
  /\ \E x \in LaneWalks : playerPos = [x |-> x, y |-> 0]
  /\ gameActiveRef = TRUE
  /\ isJumpingRef = FALSE
  /\ isRollingRef = FALSE
  /\ jumpVelocityRef = 0
  /\ animationQueueRef = <<>>
  /\ isAnimatingRef = FALSE
  /\ timers = <<>>
  /\ currentAnimation = "run"
  /\ barriers = <<>>
  /\ lastBarrierZ = CursorFor(<<>>)
  /\ barrierLoads = MAX_BARRIERS
  /\ coins = <<>>
  /\ coinLoads = [i \in CoinIndices |-> 1]
  /\ collisions = 0
  /\ spawnLog = <<>>
  /\ slotClash = FALSE
  /\ collectEvents = 0
  /\ epoch = 0
  /\ ticks = 0
  /\ events = 0

NextLane ==
  \/ Tick
  \/ \E key \in {"ArrowLeft", "ArrowRight"} : handleKeyDown(key)

SpecLane == LaneInit /\ [][NextLane]_vars

(* ------------------------------------------------------------------ *)
(* Jumps and slides with their timers, across a game over and a restart *)
(* ------------------------------------------------------------------ *)
\* a run with a barrier on its way to the player, either without input so far or with
\* one jump, dragged while the player was loading (playAnimationRef not yet set) and
\* landed by the first frame, whose animation is still in progress
SlideInit ==
  \E early \in BOOLEAN :
    LET idle == [queue |-> <<>>, busy |-> FALSE, timers |-> <<>>, anim |-> "run"]
        S == IF early
             THEN playAndResetAnimation(idle, "jump", JumpDuration, "none", FALSE, 0)
             ELSE idle
    IN /\ environment = initEnvironment(EnvNotStarted)
       /\ Warmed
       /\ mounted = TRUE
       /\ listening = TRUE
       /\ gameActiveRef = TRUE
       /\ gameState = defaultGameState
       /\ isJumpingRef = FALSE
       /\ isRollingRef = FALSE
       /\ jumpVelocityRef = 0
       /\ animationQueueRef = S.queue
       /\ isAnimatingRef = S.busy
       /\ timers = S.timers
       /\ collisions = 0
       /\ slotClash = FALSE
       /\ collectEvents = 0
       /\ epoch = 0
       /\ ticks = 0
       /\ events = IF early THEN 1 ELSE 0

FireTimer == \E i \in 1..Len(timers) : TimerFires(i)

NextSlide ==
  \/ \E key \in {"ArrowUp", "ArrowDown"} : handleKeyDown(key)
  \/ FireTimer
  \/ Tick
  \/ restartGame

\* the browser runs the callback of a pending setTimeout
SpecSlide == SlideInit /\ [][NextSlide]_vars /\ WF_vars(FireTimer)

(* ------------------------------------------------------------------ *)
(* The steps that write the spacing cursor                             *)
(* ------------------------------------------------------------------ *)
\* init, the barrier loads, the frames and restartGame, without input
NextCursor ==
  \/ PlayerLoaded
  \/ PlayerLoadFailed
  \/ \E lane \in LaneSet : BarrierLoaded(lane)
  \/ BarrierLoadFailed
  \/ Tick
  \/ restartGame

SpecCursor == Init /\ [][NextCursor]_vars

(* ------------------------------------------------------------------ *)
(* Drag events of every explored movement and direction                *)
(* ------------------------------------------------------------------ *)
NextDrag ==
  \/ \E d \in Drags : onDrag(d[1], d[2], d[3], d[4])
  \/ \E i \in 1..Len(timers) : TimerFires(i)

SpecDrag == LaneInit /\ [][NextDrag]_vars

(* ------------------------------------------------------------------ *)
(* Frames of a game whose barriers are near the player                 *)
(* ------------------------------------------------------------------ *)
\* barrier positions: far ahead, reaching the player's box with the next move, inside
\* it, and one move short of the recycle threshold
HitBarrierZ == {-25000, -600, 900, 9500}

\* coin positions: far ahead, reaching the player's box with the next move, and one
\* move short of the recycle threshold
HitCoinZ == {-30000, -600, 9500}

\* a running game with two barriers and the first coin, road segment, pair of
\* buildings and cloud loaded and the player in its lane
HitInit ==
  /\ environment = [roadSegments |-> <<RoadZ(0)>>,
                    leftBuildings |-> <<BuildingZ(0)>>,
                    rightBuildings |-> <<BuildingZ(0)>>,
                    clouds |-> <<CloudZ(0)>>,
                    roadLoads |-> RoadIndices \ {0},
                    buildingLoads |-> BuildingIndices \ {0},
                    cloudLoads |-> CloudIndices \ {0}]
  /\ mounted = TRUE
  /\ listening = TRUE
  /\ initPc = "running"
  /\ playerRef = TRUE
  /\ \E lane \in {-1, 0, 1} :
       /\ gameState = [defaultGameState EXCEPT !.currentLane = lane]
       /\ playerPos = [x |-> lane * laneDistance, y |-> 0]
  /\ \E x1, x2 \in LaneSet : \E z1, z2 \in HitBarrierZ :
       barriers = <<[x |-> x1, z |-> z1], [x |-> x2, z |-> z2]>>
  /\ lastBarrierZ = LoadCursor(LoadCursor(CursorFor(<<>>)))
  /\ barrierLoads = MAX_BARRIERS - 2
  /\ \E cl \in CoinLanes : \E cz \in HitCoinZ : coins = <<[x |-> CoinX(cl), z |-> cz]>>
  /\ coinLoads = [i \in CoinIndices |-> IF i = 0 THEN 0 ELSE 1]
  /\ currentAnimation = "run"
  /\ gameActiveRef = TRUE
  /\ isJumpingRef = FALSE
  /\ isRollingRef = FALSE
  /\ jumpVelocityRef = 0
  /\ animationQueueRef = <<>>
  /\ isAnimatingRef = FALSE
  /\ timers = <<>>
  /\ collisions = 0
  /\ spawnLog = <<>>
  /\ slotClash = FALSE
  /\ collectEvents = 0
  /\ epoch = 0
  /\ ticks = 0
  /\ events = 0

NextHit == Tick

SpecHit == HitInit /\ [][NextHit]_vars

(* ------------------------------------------------------------------ *)
(* updateObstacles on its own                                          *)
(* ------------------------------------------------------------------ *)
\* player and barrier coordinates around the faces of the two boxes: for a barrier in
\* lane 1 the boxes touch on X at px = -0.5 and px = 2; they touch on Y at py = 1; a
\* barrier moved by 0.6 touches on Z from bz = -1.8 and from bz = 0.9, and is recycled
\* from bz = 9.401; bz = -1.201 is the last position in front of the player's box
CollidePlayerX == {-4000, -501, -500, 0, 2000, 2001, 4000}
CollidePlayerY == {0, 1000, 1001}
CollideBarrierZ == {-1801, -1800, -1201, -600, 900, 901, 9400, 9401}

\* a running game with one barrier and a player, each anywhere in those sets, the
\* player either running or in a slide started by handleKeyDown / onDrag
CollideInit ==
  \E sliding \in BOOLEAN :
    LET idle == [queue |-> <<>>, busy |-> FALSE, timers |-> <<>>, anim |-> "run"]
        S == IF sliding
             THEN playAndResetAnimation(idle, "roll", RollDuration, "endSlide", TRUE, 0)
             ELSE idle
    IN /\ environment = initEnvironment(EnvNotStarted)
       /\ mounted = TRUE
       /\ listening = TRUE
       /\ initPc = "running"
       /\ playerRef = TRUE
       /\ \E px \in CollidePlayerX : \E py \in CollidePlayerY :
            playerPos = [x |-> px, y |-> py]
       /\ \E bx \in LaneSet : \E bz \in CollideBarrierZ :
            barriers = <<[x |-> bx, z |-> bz]>>
       /\ lastBarrierZ = LoadCursor(CursorFor(<<>>))
       /\ barrierLoads = MAX_BARRIERS - 1
       /\ coins = <<>>
       /\ coinLoads = [i \in CoinIndices |-> 1]
       /\ currentAnimation = S.anim
       /\ gameActiveRef = TRUE
       /\ gameState = [defaultGameState EXCEPT !.isSliding = sliding]
       /\ isJumpingRef = FALSE
       /\ isRollingRef = sliding
       /\ jumpVelocityRef = 0
       /\ animationQueueRef = S.queue
       /\ isAnimatingRef = S.busy
       /\ timers = S.timers
       /\ collisions = 0
       /\ spawnLog = <<>>
       /\ slotClash = FALSE
       /\ collectEvents = 0
       /\ epoch = 0
       /\ ticks = 0
       /\ events = IF sliding THEN 1 ELSE 0

\* one call updateObstacles(scene, player, gameState, onCollision) with a callback
\* that counts its invocations
CallUpdateObstacles ==
  /\ ticks = 0
  /\ ticks' = 1
  /\ \E lanes \in [Recycled(barriers) -> LaneSet] :
       LET O == updateObstacles([barriers |-> barriers, lastBarrierZ |-> lastBarrierZ,
                                 hits |-> 0, spawnLog |-> spawnLog,
                                 slotClash |-> slotClash],
                                playerRef, lanes, playerPos.x, playerPos.y)
       IN /\ barriers' = O.barriers
          /\ lastBarrierZ' = O.lastBarrierZ
          /\ spawnLog' = O.spawnLog
          /\ slotClash' = O.slotClash
          /\ collisions' = collisions + O.hits
  /\ UNCHANGED <<environment, mounted, listening, initPc, playerRef, playerPos, currentAnimation,
                 gameActiveRef, gameState, isJumpingRef, isRollingRef, jumpVelocityRef,
                 animationQueueRef, isAnimatingRef, timers, barrierLoads, coins,
                 coinLoads, collectEvents, epoch, events>>

NextCollide == CallUpdateObstacles

SpecCollide == CollideInit /\ [][NextCollide]_vars

(* ------------------------------------------------------------------ *)
(* The frame loop over a loaded environment                            *)
(* ------------------------------------------------------------------ *)
\* the frames run since the load of the first road segment, pair of buildings and
\* cloud completed: each is one or two frames short of the threshold of 50
EnvWarmStarts ==
  {[road |-> 82, building |-> 249, cloud |-> 1665],
   [road |-> 83, building |-> 250, cloud |-> 1666]}

\* a run without input in which the loads of index 0 completed that many frames ago
\* (the barrier 83 and the coin 16 frames ago, out of the player's lane); the later
\* road loads and the building and cloud loads of index 1 are in flight, the building
\* and cloud loads of a higher index have failed
EnvInit ==
  /\ WarmedAt([frames |-> 83, lane |-> LANE_OFFSETS[3], coinFrames |-> 16])
  /\ \E w \in EnvWarmStarts :
       environment =
         [roadSegments |-> <<RoadZ(0) + w.road * speed * 2>>,
          leftBuildings |-> <<BuildingZ(0) + w.building * speed * 2>>,
          rightBuildings |-> <<BuildingZ(0) + w.building * speed * 2>>,
          clouds |-> <<CloudZ(0) + w.cloud * CloudStep(speed * 2)>>,
          roadLoads |-> RoadIndices \ {0},
          buildingLoads |-> BuildingIndices \cap {1},
          cloudLoads |-> CloudIndices \cap {1}]
  /\ Untouched

NextEnv ==
  \/ Tick
  \/ \E i \in RoadIndices : RoadLoaded(i)
  \/ \E i \in BuildingIndices : BuildingLoaded(i)
  \/ \E i \in CloudIndices : CloudLoaded(i)
  \/ EnvLoadFailed

SpecEnv == EnvInit /\ [][NextEnv]_vars

(* ------------------------------------------------------------------ *)
(* Unmount                                                             *)
(* ------------------------------------------------------------------ *)
\* the cleanup the mount effect returns, run by React once, at unmount: it disposes the
\* renderer, removes both listeners and detaches the pooled objects from the scene; it
\* re-points obstaclesRef / coinsRef at fresh arrays, which leaves the module-level
\* pools, the pending timers, the loads in flight and the requestAnimationFrame
\* request of animate as they were
cleanup ==
  /\ mounted
  /\ mounted' = FALSE
  /\ listening' = FALSE
  /\ UNCHANGED <<environment, initPc, playerRef, playerPos, currentAnimation, gameActiveRef,
                 gameState, isJumpingRef, isRollingRef, jumpVelocityRef,
                 animationQueueRef, isAnimatingRef, timers, barriers, lastBarrierZ,
                 barrierLoads, coins, coinLoads, collisions, spawnLog, slotClash,
                 collectEvents, epoch, ticks, events>>

\* the component's life with its unmount
NextUnmount == Next \/ cleanup

SpecUnmount == Init /\ [][NextUnmount]_vars

(* ------------------------------------------------------------------ *)
(* Properties                                                          *)
(* ------------------------------------------------------------------ *)
\* the lane an event with the horizontal intent h leaves, as C1 states it
LaneAfter(lane, h) ==
  IF h = "left" THEN Max(lane - 1, -1)
  ELSE IF h = "right" THEN Min(lane + 1, 1)
  ELSE lane

LaneInRange == gameState.currentLane \in {-1, 0, 1}

HIntents == {"none", "left", "right"}
VIntents == {"none", "jump", "slide"}

\* no step that is the handling of an event with the intents h and v leaves another
\* lane than the one C1 states
LaneStepsClamped ==
  \A h \in HIntents, v \in VIntents :
    gameState'.currentLane /= LaneAfter(gameState.currentLane, h) => ~Handle(h, v)

\* C1: currentLane is always -1, 0 or 1; an event with a left intent sets it to
\* max(currentLane - 1, -1) and one with a right intent to min(currentLane + 1, 1),
\* from the keyboard and from a drag alike
C1_LaneClamped == []LaneInRange /\ [][LaneStepsClamped]_vars

\* the player stands in an outer lane after two input events
C1_OuterLaneReached ==
  /\ gameState.currentLane = -1
  /\ events = 2
  /\ initPc = "loading"

\* C2: since the last init / restart, every barrier placement (by a load callback of
\* initObstacles or by a recycle in updateObstacles) gets a spawn Z exactly
\* MIN_BARRIER_SPACING lower than the spawn Z of the placement before it
C2_SpawnsOneSpacingApart ==
  \A i \in 2..Len(spawnLog) : spawnLog[i] = spawnLog[i - 1] - MIN_BARRIER_SPACING

\* C3: at the moment a barrier is placed, by a load callback or by a recycle, its Z
\* differs from the current Z of every other barrier by at least MIN_BARRIER_SPACING,
\* also when a load completes after another barrier was recycled
C3_NoSharedSlot == ~slotClash

\* a completion callback run after a restart for a timer scheduled before it leaves
\* the sequencer, the rolling / sliding flags and the animation as they were
StaleCompletionInert ==
  \A i \in 1..Len(timers) :
    (timers[i].epoch < epoch /\ TimerFires(i)) =>
      /\ isAnimatingRef' = isAnimatingRef
      /\ animationQueueRef' = animationQueueRef
      /\ currentAnimation' = currentAnimation
      /\ isRollingRef' = isRollingRef
      /\ gameState' = gameState
      /\ timers' = RemoveAt(timers, i)

\* C4: restartGame interrupts an in-flight animation timer: the completion callback
\* of a timer scheduled before a restart never runs its effects after the restart (it
\* does not clear isRolling / isSliding, play 'run', clear the busy flag or dequeue an
\* entry)
C4_StaleCompletionInert == [][StaleCompletionInert]_vars

\* C5: in every reachable state, restarts included, at most one completion timer is
\* pending, so that no animation is started while the completion timer of an earlier
\* one is pending
C5_OneTimerPending == Len(timers) <= 1

\* an animation is started either with no completion pending or in the completion
\* step of the one pending timer, and then it is the head of the queue
FifoStep ==
  /\ Len(timers') > Len(timers) => timers = <<>>
  /\ (Len(timers') = Len(timers) /\ timers' /= timers) =>
       /\ Len(timers) = 1
       /\ animationQueueRef /= <<>>
       /\ timers'[1].animationName = Head(animationQueueRef).animationName
       /\ animationQueueRef' = Tail(animationQueueRef)

\* C6: the sequencer is FIFO: entries are played in enqueue order, each starting only
\* after the completion step of the entry before it (jump then roll enqueued: roll
\* starts in the completion step of jump)
C6_Fifo == [][FifoStep]_vars

\* in a frame of an active game with the player loaded, a barrier whose box intersects
\* the player's makes onCollision run and both active flags false in that frame
CollisionEndsRun ==
  (/\ ticks' = ticks + 1
   /\ gameActiveRef
   /\ playerRef
   /\ \E i \in 1..Len(barriers') :
        intersectsBox(ObstaclePlayerBox(playerPos'.x, playerPos'.y),
                      BarrierBox(barriers'[i])))
  => /\ collisions' > collisions
     /\ ~gameActiveRef'
     /\ ~gameState'.active

\* C7: if in a tick of an active game a barrier's hitbox intersects the player's,
\* onCollision fires in that tick and the active flag is false at the end of it
C7_CollisionEndsRun == [][CollisionEndsRun]_vars

\* the player on the ground in lane 0 was hit in the first frame explored
C7_CollisionSeen ==
  /\ collisions = 1
  /\ ticks = 1
  /\ playerPos.y = 0
  /\ gameState.currentLane = 0
  /\ ~gameActiveRef
  /\ ~gameState.active

\* no frame, input event, load completion or timer callback sets an active flag; the
\* loop's flag is set by restartGame only; restartGame leaves both flags set
GameOverTerminal ==
  /\ (ticks' /= ticks \/ events' /= events \/ initPc' /= initPc) =>
       /\ gameActiveRef' => gameActiveRef
       /\ gameState'.active => gameState.active
  /\ (~gameActiveRef /\ gameActiveRef') => epoch' = epoch + 1
  /\ epoch' = epoch + 1 => (gameActiveRef' /\ gameState'.active)

C9_CountEqualsCollections == gameState.coinCount = collectEvents

\* C10: updateCoins never adds or removes a coin: the pool has the same size after a
\* tick as before it, whatever is collected or recycled in it
C10_PoolSizeKept == [][ticks' = ticks + 1 => Len(coins') = Len(coins)]_vars

\* a coin was collected and the pool still holds it
C10_CollectedCoinKept ==
  /\ collectEvents >= 1
  /\ Len(coins) >= 1

\* C11: in every reachable state the barrier pool holds at most MAX_BARRIERS entities
\* and the coin pool at most maxCoins, also when a restart is issued while loads of an
\* earlier init or restart are in flight
C11_PoolsWithinSize == Len(barriers) <= MAX_BARRIERS /\ Len(coins) <= maxCoins

\* C12: once the component is unmounted no frame callback runs any more and the keydown
\* and resize listeners are not registered, also when the unmount precedes the
\* resolution of the player load
C12_UnmountHaltsAll ==
  /\ [](~mounted => ~listening)
  /\ [][~mounted => ticks' = ticks]_vars

\* the barriers of bs whose box intersects the box of a player at p
BarriersAt(bs, p) ==
  {i \in 1..Len(bs) : intersectsBox(ObstaclePlayerBox(p.x, p.y), BarrierBox(bs[i]))}

\* the coins of cs whose box, after the move of a frame, intersects the box of a
\* player at p (a recycled coin lands beyond -50 whatever is drawn for it)
CoinsAt(cs, p) == {i \in 1..Len(cs) : coinHit(coinMove(cs[i], NoPick), p.x, p.y)}

TickTestsNewPosition ==
  (ticks' = ticks + 1 /\ gameActiveRef /\ playerRef) =>
    /\ collisions' - collisions = Cardinality(BarriersAt(barriers', playerPos'))
    /\ collectEvents' - collectEvents = Cardinality(CoinsAt(coins, playerPos'))

\* C13: in a tick of an active game the player's kinematics are updated before the
\* obstacles and the coins are moved and tested, so the collision and the collection
\* tests of the tick use the player position computed in that tick
C13_TestsUseNewPosition == [][TickTestsNewPosition]_vars

\* a jumping player has cleared, in the last frame, the height of a barrier that
\* stands in its lane at its depth
C13_JumpedOverBarrier ==
  /\ ticks = MaxTicks
  /\ collisions = 0
  /\ isJumpingRef
  /\ BarriersAt(barriers, playerPos) = {}
  /\ BarriersAt(barriers, [x |-> playerPos.x, y |-> 0]) /= {}

Landed ==
  /\ ~isJumpingRef
  /\ playerPos.y = 0
  /\ jumpVelocityRef = 0
  /\ currentAnimation = "run"

LandingStep == (isJumpingRef /\ ~isJumpingRef') => Landed'

\* C14: a jump started from y = 0 with velocity 8 under gravity -20, ticked with
\* positive deltas in an active game, eventually lands: y is exactly 0, the jump
\* velocity is 0, the jumping flag is cleared and the run animation is played
C14_JumpLands == (isJumpingRef ~> Landed) /\ [][LandingStep]_vars

\* the player is back on the ground after the frames of a jump
C14_BackOnGround == Landed /\ ticks >= 9

StartsOnlyWhenIdle ==
  ((isJumpingRef' /\ ~isJumpingRef) \/ (isRollingRef' /\ ~isRollingRef)) =>
    (~isJumpingRef /\ ~isRollingRef)

\* C15: a jump or a slide starts only when the player is neither jumping nor sliding,
\* and the jumping flag and the rolling / sliding flag are never both true
C15_JumpSlideExclusive ==
  /\ [](~(isJumpingRef /\ (isRollingRef \/ gameState.isSliding)))
  /\ [][StartsOnlyWhenIdle]_vars

\* two input events and no load completion happened, the lane is the initial one and
\* the player is jumping: the second event carried a jump or slide intent during the
\* jump
C15_IntentDuringJump ==
  /\ isJumpingRef
  /\ events = MaxEvents
  /\ epoch = 0
  /\ gameState.currentLane = 0
  /\ barrierLoads + Len(barriers) = MAX_BARRIERS
  /\ \A i \in CoinIndices : coinLoads[i] = 1
  /\ coins = <<>>

NoPlayerTickInert ==
  (ticks' = ticks + 1 /\ ~playerRef) =>
    /\ UNCHANGED <<barriers, coins, lastBarrierZ, gameActiveRef, collisions,
                   collectEvents>>
    /\ gameState'.coinCount = gameState.coinCount
    /\ gameState'.active = gameState.active

\* C16: without a player entity a tick leaves the barrier and coin positions, the
\* spacing cursor, coinCount and the active flag unchanged and invokes neither the
\* collision nor the collection callback
C16_NoPlayerNoUpdate == [][NoPlayerTickInert]_vars

\* frames have run over a loaded barrier and a loaded coin in a game whose player
\* load failed
C16_TickedWithoutPlayer ==
  /\ initPc = "running"
  /\ ~playerRef
  /\ ticks = MaxTicks
  /\ barriers /= <<>>
  /\ coins /= <<>>

LoadFailureInert ==
  (events' = events + 1 /\ (BarrierLoadFailed \/ \E i \in CoinIndices : CoinLoadFailed(i)))
    => UNCHANGED <<barriers, coins, lastBarrierZ>>

PlayerFailureContinues ==
  (initPc = "loading" /\ initPc' = "running" /\ ~playerRef') =>
    /\ barrierLoads' = barrierLoads + MAX_BARRIERS
    /\ \A i \in CoinIndices : coinLoads'[i] = coinLoads[i] + 1
    /\ listening'
    /\ gameActiveRef'

NeverOverWithoutPlayer ==
  (initPc = "running" /\ ~playerRef) => (gameActiveRef /\ gameState.active)

\* C17: a failed barrier or coin load adds nothing to its pool and leaves the spacing
\* cursor unchanged; after a failed player load init still starts the loads of the
\* pools, adds the listeners and starts the frame loop, and the game is never over
C17_LoadFailuresNonFatal ==
  /\ []NeverOverWithoutPlayer
  /\ [][LoadFailureInert /\ PlayerFailureContinues]_vars

\* frames have run in a game whose player load and one of whose barrier loads failed
C17_RunsAfterFailures ==
  /\ initPc = "running"
  /\ ~playerRef
  /\ epoch = 0
  /\ ticks > 0
  /\ barrierLoads + Len(barriers) < MAX_BARRIERS

RestartPost ==
  (epoch' = epoch + 1) =>
    /\ gameActiveRef' /\ gameState'.active
    /\ animationQueueRef' = <<>> /\ ~isAnimatingRef'
    /\ playerPos' = [x |-> 0, y |-> 0]
    /\ ~isJumpingRef' /\ ~isRollingRef' /\ jumpVelocityRef' = 0
    /\ barriers' = <<>> /\ coins' = <<>>
    /\ lastBarrierZ' = FirstBarrierZ

\* the first barrier placed since init or the last restart stands at -40
FirstPlacedAtStart == spawnLog /= <<>> => spawnLog[1] = FirstBarrierZ

\* C18: when restartGame returns the game is active, the animation queue is empty and
\* the busy flag clear, the player is at the origin with the jumping and rolling
\* flags false and jump velocity 0, both pools are empty and the spacing cursor is
\* -40, so that the first barrier placed afterwards is at Z = -40
C18_RestartResets == []FirstPlacedAtStart /\ [][RestartPost]_vars

\* a barrier has been placed after a restart that found the sequencer busy
C18_PlacedAfterRestart ==
  /\ epoch > 0
  /\ spawnLog /= <<>>
  /\ \E i \in 1..Len(timers) : timers[i].epoch < epoch

\* the closed intervals [lo1, hi1] and [lo2, hi2] share a point
Overlap(lo1, hi1, lo2, hi2) == lo1 <= hi2 /\ lo2 <= hi1

\* the boxes of C19 for a player at p (z = 0) and a barrier at b (y = 0.5)
BoxesOverlap(p, b) ==
  /\ Overlap(p.x - 500, p.x + 500, b.x - 1000, b.x + 500)
  /\ Overlap(p.y, p.y + 1500, 500, 500 + 500)
  /\ Overlap(0 - 500, 0 + 500, b.z - 1000, b.z + 700)

CollisionIffOverlap ==
  (ticks' = ticks + 1) =>
    collisions' - collisions =
      Cardinality({i \in 1..Len(barriers') : BoxesOverlap(playerPos, barriers'[i])})

\* C19: updateObstacles invokes onCollision for a barrier exactly when the player box
\* [x-0.5,x+0.5] x [y,y+1.5] x [z-0.5,z+0.5] and the barrier box [bx-1,bx+0.5] x
\* [by,by+0.5] x [bz-1,bz+0.7], taken after the barrier's move or recycle, overlap on
\* all three axes, touching included
C19_CollisionIffOverlap == [][CollisionIffOverlap]_vars

\* a collision was reported for boxes that only touch, on the Y axis
C19_TouchingCounted ==
  /\ ticks = 1
  /\ collisions = 1
  /\ playerPos.y = BarrierY + 500

AllZ(zs, limit) == \A i \in 1..Len(zs) : zs[i] <= limit

\* C20: after every tick each barrier and each coin has Z <= 10 and each road
\* segment, building and cloud has Z <= 50: an entity past its threshold is moved
\* back in the tick in which it crosses it
C20_EntitiesWithinZone ==
  /\ \A i \in 1..Len(barriers) : barriers[i].z <= RecycleZ
  /\ \A i \in 1..Len(coins) : coins[i].z <= RecycleZ
  /\ AllZ(environment.roadSegments, EnvRecycleZ)
  /\ AllZ(environment.leftBuildings, EnvRecycleZ)
  /\ AllZ(environment.rightBuildings, EnvRecycleZ)
  /\ AllZ(environment.clouds, EnvRecycleZ)

\* a barrier, a road segment, a building and a cloud have been sent back
C20_AllSentBack ==
  /\ ticks > 0
  /\ Len(spawnLog) > Len(barriers)
  /\ \E i \in 1..Len(environment.roadSegments) :
       environment.roadSegments[i] < RoadZ(roadCount - 1)
  /\ \E i \in 1..Len(environment.leftBuildings) :
       environment.leftBuildings[i] < BuildingZ(buildingCount - 1)
  /\ \E i \in 1..Len(environment.clouds) :
       environment.clouds[i] < CloudZ(cloudCount - 1)

\* z2 is z advanced by step, or the entity crossed limit by that step and was sent back
Advanced(z, z2, step, limit) == z2 = z + step \/ (z + step > limit /\ z2 <= limit)

\* every entity of the sequence zs advanced by step in this step
AllAdvanced(zs, zs2, step, limit) ==
  /\ Len(zs2) = Len(zs)
  /\ \A i \in 1..Len(zs) : Advanced(zs[i], zs2[i], step, limit)

\* a tick of an active game advances roads, buildings, barriers and coins by speed * 2
\* and clouds by cloudStep (barriers and coins when the player exists; a collected
\* coin is sent back)
TickAdvances(cloudStep) ==
  (ticks' = ticks + 1 /\ gameActiveRef) =>
    /\ AllAdvanced(environment.roadSegments, environment'.roadSegments,
                   speed * 2, EnvRecycleZ)
    /\ AllAdvanced(environment.leftBuildings, environment'.leftBuildings,
                   speed * 2, EnvRecycleZ)
    /\ AllAdvanced(environment.rightBuildings, environment'.rightBuildings,
                   speed * 2, EnvRecycleZ)
    /\ AllAdvanced(environment.clouds, environment'.clouds, cloudStep, EnvRecycleZ)
    /\ playerRef =>
         /\ Len(barriers') = Len(barriers) /\ Len(coins') = Len(coins)
         /\ \A i \in 1..Len(barriers) :
              Advanced(barriers[i].z, barriers'[i].z, speed * 2, RecycleZ)
         /\ \A i \in 1..Len(coins) :
              \/ Advanced(coins[i].z, coins'[i].z, speed * 2, RecycleZ)
              \/ i \in CoinsAt(coins, playerPos')

\* C21 as stated: per tick of an active game each road segment, building, barrier and
\* coin advances in Z by speed * 2 and each cloud by speed / 4, speed being
\* gameState.speed
C21_CloudsQuarterSpeed == [][TickAdvances(speed \div 4)]_vars

\* C21 amended: per tick of an active game each road segment, building, barrier and
\* coin advances in Z by speed * 2 and each cloud by (speed * 2) / 4, speed being
\* gameState.speed
C21_CloudsQuarterOfRoadStep == [][TickAdvances((speed * 2) \div 4)]_vars

\* a frame has moved the first cloud, loaded 1665 frames before the first frame explored
C21_CloudMoved ==
  /\ ticks = 1
  /\ environment.clouds /= <<>>
  /\ environment.clouds[1] = CloudZ(0) + 1666 * ((speed * 2) \div 4)

\* every road load completed
AllRoadsExist ==
  Len(environment.roadSegments) = roadCount /\ environment.roadLoads = {}

\* the road segments stand pairwise a multiple of the spacing apart
RoadsTile ==
  \A i, j \in 1..Len(environment.roadSegments) :
    (environment.roadSegments[i] - environment.roadSegments[j]) % roadSpacing = 0

\* a recycled road segment is sent back by the spacing times the segment count
RoadRewindsByTrack ==
  (ticks' = ticks + 1 /\ gameActiveRef) =>
    \A i \in 1..Len(environment.roadSegments) :
      LET z1 == environment.roadSegments[i] + speed * 2
      IN z1 > EnvRecycleZ =>
           environment'.roadSegments[i] = z1 - roadSpacing * roadCount

\* C22: a recycled road segment is sent back by exactly spacing * segmentCount, and
\* once all segments exist they stay pairwise a multiple of the spacing apart, for
\* any timing of the segment loads relative to the ticks
C22_RoadKeepsTiling ==
  /\ [](AllRoadsExist => RoadsTile)
  /\ [][RoadRewindsByTrack]_vars

\* a frame takes the distance d to the target to 0.9 d, to the thousandth the
\* positions are kept in (exactly when d is a multiple of ten thousandths)
LaneContracts ==
  (ticks' = ticks + 1 /\ gameActiveRef /\ playerRef) =>
    LET T == gameState.currentLane * laneDistance
        d == playerPos.x - T
        d2 == playerPos'.x - T
    IN /\ d * d2 >= 0
       /\ d /= 0 => d2 /= 0
       /\ 9 * Abs(d) <= 10 * Abs(d2)
       /\ 10 * Abs(d2) < 9 * Abs(d) + 10
       /\ d % 10 = 0 => 10 * d2 = 9 * d

\* C23: with targetX = currentLane * laneDistance each tick replaces x - targetX by
\* 0.9 times its value, so the distance decays geometrically, the sign of
\* x - targetX never flips and x never passes targetX
C23_LaneSmoothingContracts == [][LaneContracts]_vars

\* frames have moved the player towards an outer lane it has not reached
C23_BetweenLanes ==
  /\ ticks = MaxTicks
  /\ gameState.currentLane /= 0
  /\ events > 0
  /\ playerPos.x /= gameState.currentLane * laneDistance

\* y, velocity and jumping flag after one jump step of delta ms from (y, v): the
\* velocity step first and the position step with the new velocity, or the position
\* step first with the old velocity; the jump ends once y is not above the ground
ReferenceStep(y, v, delta, velocityFirst) ==
  LET v1 == v + (gravity * delta) \div 1000
      y1 == y + ((IF velocityFirst THEN v1 ELSE v) * delta) \div 1000
  IN IF y1 <= 0 THEN <<0, 0, FALSE>> ELSE <<y1, v1, TRUE>>

\* a frame of a jump is a reference step for one of the frame times
JumpFrameIs(velocityFirst) ==
  (ticks' = ticks + 1 /\ gameActiveRef /\ playerRef /\ isJumpingRef) =>
    \E delta \in Deltas :
      <<playerPos'.y, jumpVelocityRef', isJumpingRef'>> =
        ReferenceStep(playerPos.y, jumpVelocityRef, delta, velocityFirst)

\* C24 as stated: each jump tick does velocityY += gravity * delta first and then
\* y += velocityY * delta with the updated velocity
C24_VelocityThenPosition == [][JumpFrameIs(TRUE)]_vars

\* C24 amended: each jump tick does y += velocityY * delta first, with the velocity
\* of the previous tick, and then velocityY += gravity * delta
C24_PositionThenVelocity == [][JumpFrameIs(FALSE)]_vars

\* the first frame of a jump, 100 ms long, has lifted the player by 0.8
C24_FirstJumpFrame ==
  /\ ticks = 1
  /\ isJumpingRef
  /\ playerPos.y = (JumpVelocity * 100) \div 1000
  /\ jumpVelocityRef = JumpVelocity + (gravity * 100) \div 1000

\* C25: sliding gives no protection: a call of updateObstacles made while the player
\* slides invokes the callback for exactly the barriers whose box overlaps the
\* full-height box of a running player at the same position, so two states that
\* differ only in the sliding / rolling flags get the same callbacks
SlidingHitsAsStanding ==
  (ticks' = ticks + 1 /\ playerRef /\ (isRollingRef \/ gameState.isSliding))
    => collisions' - collisions =
         Cardinality({i \in 1..Len(barriers') : BoxesOverlap(playerPos, barriers'[i])})

C25_SlidingNoProtection == [][SlidingHitsAsStanding]_vars

\* a sliding player was hit
C25_HitWhileSliding ==
  ticks = 1 /\ collisions = 1 /\ isRollingRef /\ gameState.isSliding

\* C26: in a frame of an active game onCollision is invoked once for each barrier whose
\* box intersects the player's, and however many invocations (one or more) a frame
\* makes, they leave what one leaves: the game inactive, in the ref and in the React
\* state, and no other field of the state changed by them
CallbackIdempotent ==
  (ticks' = ticks + 1 /\ gameActiveRef /\ playerRef) =>
    LET k == collisions' - collisions
    IN /\ k = Cardinality({i \in 1..Len(barriers') :
                            BoxesOverlap(playerPos', barriers'[i])})
       /\ k >= 1 =>
            /\ ~gameActiveRef'
            /\ gameState' = [gameState EXCEPT !.active = FALSE,
                                              !.coinCount = gameState'.coinCount]
       /\ k = 0 => gameActiveRef' /\ gameState'.active = gameState.active

C26_CallbackIdempotent == [][CallbackIdempotent]_vars

\* a frame invoked the callback twice
C26_TwoCallbacksInOneFrame ==
  ticks = 1 /\ collisions = 2 /\ ~gameActiveRef /\ ~gameState.active

\* C27: a collision does not consume the barrier: a frame leaves the number of barriers
\* as it was, a barrier the player runs into keeps its lane and is moved by the frame's
\* step like any other (it is not sent back), and the spacing cursor moves only for
\* the barriers that passed Z = 10
CollisionKeepsBarrier ==
  (ticks' = ticks + 1) =>
    /\ Len(barriers') = Len(barriers)
    /\ (gameActiveRef /\ playerRef) =>
         /\ \A i \in 1..Len(barriers) :
              LET moved == [x |-> barriers[i].x, z |-> barriers[i].z + speed * 2]
              IN BoxesOverlap(playerPos', moved) => barriers'[i] = moved
         /\ lastBarrierZ' =
              lastBarrierZ - MIN_BARRIER_SPACING * Cardinality(Recycled(barriers))

C27_CollisionKeepsBarrier == [][CollisionKeepsBarrier]_vars

\* after the frame of the collision the barrier still stands in the player's box
C27_BarrierStillThere ==
  /\ ticks = 1
  /\ collisions >= 1
  /\ \E i \in 1..Len(barriers) : BoxesOverlap(playerPos, barriers[i])

\* C28: coin recycling is apart from the obstacle spacing cursor: in a frame the cursor
\* moves by the spacing for each barrier past Z = 10 and by nothing else, whatever
\* happens to the coins, and a coin is either moved by the frame's step or, when it
\* passed Z = 10 or was collected, put in a lane X of {-4, 0, 4} at a Z in [-100, -50]
CoinResetApart ==
  (ticks' = ticks + 1 /\ gameActiveRef /\ playerRef) =>
    /\ lastBarrierZ' =
         lastBarrierZ - MIN_BARRIER_SPACING * Cardinality(Recycled(barriers))
    /\ Len(coins') = Len(coins)
    /\ \A i \in 1..Len(coins) :
         LET moved == [x |-> coins[i].x, z |-> coins[i].z + speed * 2]
         IN IF moved.z > RecycleZ \/ i \in CoinsAt(coins, playerPos')
            THEN /\ coins'[i].x \in {-4000, 0, 4000}
                 /\ coins'[i].z >= -100000
                 /\ coins'[i].z <= -50000
            ELSE coins'[i] = moved

C28_CoinResetApart == [][CoinResetApart]_vars

\* a coin was collected and put back while the cursor stayed where it was
C28_CollectedCursorKept ==
  /\ ticks = 1
  /\ collectEvents = 1
  /\ coins[1].z <= -50000
  /\ lastBarrierZ = LoadCursor(LoadCursor(CursorFor(<<>>)))

\* C29: one drag event yields at most one kind of intent: the lane changes only if
\* |mx| > 10 and |mx| > |my|, a jump or a slide starts only if |my| > 10 and
\* |my| > |mx|, never both with one event, and an event whose displacement is at most
\* 10 px on both axes, or equal on the two axes, changes nothing
DragEffect(d) ==
  LET mx == d[1]
      my == d[2]
      horizontal == gameState'.currentLane /= gameState.currentLane
      vertical == \/ isJumpingRef' /\ ~isJumpingRef
                  \/ isRollingRef' /\ ~isRollingRef
  IN /\ horizontal => Abs(mx) > 10 /\ Abs(mx) > Abs(my)
     /\ vertical => Abs(my) > 10 /\ Abs(my) > Abs(mx)
     /\ ~(horizontal /\ vertical)
     /\ ((Abs(mx) <= 10 /\ Abs(my) <= 10) \/ Abs(mx) = Abs(my)) => UNCHANGED vars

OneIntentPerDrag ==
  \A d \in Drags : onDrag(d[1], d[2], d[3], d[4]) => DragEffect(d)

C29_OneIntentPerDrag == [][OneIntentPerDrag]_vars

\* a drag started a jump before any frame ran
C29_DragJumped ==
  events = 1 /\ ticks = 0 /\ isJumpingRef /\ jumpVelocityRef = JumpVelocity

\* C30: while the game is over (after a collision, before a restart) keyboard intents
\* are ignored: a key event then leaves currentLane, the jumping and rolling flags and
\* the animation sequencer as they were
KeysIgnoredWhenOver ==
  \A key \in Keys :
    (~gameState.active /\ ~gameActiveRef /\ handleKeyDown(key)) =>
      /\ gameState'.currentLane = gameState.currentLane
      /\ isJumpingRef' = isJumpingRef
      /\ isRollingRef' = isRollingRef
      /\ animationQueueRef' = animationQueueRef
      /\ isAnimatingRef' = isAnimatingRef
      /\ timers' = timers

C30_KeysIgnoredWhenOver == [][KeysIgnoredWhenOver]_vars

\* C31: once the collision callback has made the game inactive, coinCount is not
\* incremented until a restart: not by the frame in which the callback ran (its coin
\* update comes after the callback) and not by any later step of the finished game
NoCountAfterCollision ==
  (epoch' = epoch /\ (collisions' > collisions \/ (~gameActiveRef /\ ~gameState.active)))
    => gameState'.coinCount <= gameState.coinCount

C31_NoCountAfterCollision == [][NoCountAfterCollision]_vars

\* C32: a frame of an inactive game changes nothing in the simulation: the barriers,
\* the coins, the road segments, buildings and clouds, the player's position, the
\* spacing cursor and coinCount are after it what they were before it
InactiveFrameInert ==
  (ticks' = ticks + 1 /\ ~gameActiveRef) =>
    /\ UNCHANGED <<barriers, coins, environment, playerPos, lastBarrierZ>>
    /\ gameState'.coinCount = gameState.coinCount

C32_InactiveFrameInert == [][InactiveFrameInert]_vars

\* the game ended in the first frame and a second frame ran: the barrier that was one
\* move short of Z = 0 has been moved once, the road segment once
C32_FrameAfterGameOver ==
  /\ ticks = 2
  /\ ~gameActiveRef
  /\ collisions >= 1
  /\ barriers[1].z = 0
  /\ environment.roadSegments = <<RoadZ(0) + speed * 2>>

\* C33: no tunneling: at speed 0.3 a barrier moves by 0.6 per call and collides for Z in
\* [-1.2, 1.5], so a barrier in front of that window (Z < -1.2) whose X range overlaps
\* that of a player on the ground is, after a call, either still in front of the
\* window or has had onCollision invoked; it never gets past the player unnoticed
NoTunneling ==
  (ticks' = ticks + 1 /\ playerRef /\ gameActiveRef) =>
    \A i \in 1..Len(barriers) :
      (/\ barriers[i].z < -1200
       /\ playerPos'.y = 0
       /\ Overlap(playerPos'.x - 500, playerPos'.x + 500,
                  barriers[i].x - 1000, barriers[i].x + 500))
        => \/ barriers'[i].z < -1200 /\ barriers'[i].x = barriers[i].x
           \/ collisions' > collisions

C33_NoTunneling == [][NoTunneling]_vars

\* the barrier that was at the last position in front of the window was caught
C33_CaughtAtWindowEntry ==
  ticks = 1 /\ collisions = 1 /\ playerPos.y = 0 /\ barriers[1].z = -601

\* C34: at any time at most one animation is in progress (one completion timer
\* pending) and at most one more entry waits in the animation queue behind it
C34_OneWaitingOnePlaying == Len(animationQueueRef) <= 1 /\ Len(timers) <= 1

\* C35: in every reachable state the player's Y is at least 0, and whenever the jumping
\* flag is false the player's Y is 0 and the jump velocity is 0, also right after a
\* restart issued in mid-jump
C35_GroundedUnlessJumping ==
  /\ playerPos.y >= 0
  /\ ~isJumpingRef => playerPos.y = 0 /\ jumpVelocityRef = 0

\* a restart was issued while the jump started before it had not landed (its timer is
\* still pending and no frame but the one of the collision has run)
C35_RestartedInMidJump ==
  /\ epoch = 1
  /\ ticks = 1
  /\ ~isJumpingRef
  /\ playerPos.y = 0
  /\ \E i \in 1..Len(timers) : timers[i].animationName = "jump" /\ timers[i].epoch = 0

\* C36: with the timers firing, every accepted slide ends (the rolling flag and
\* isSliding become false again), and once no more intents are enqueued the sequencer
\* goes idle for good: the queue empty, the busy flag clear, no completion pending and
\* 'run' the animation played last
SequencerIdle ==
  /\ animationQueueRef = <<>>
  /\ ~isAnimatingRef
  /\ timers = <<>>
  /\ currentAnimation = "run"

C36_SlideEndsSequencerIdles ==
  /\ isRollingRef ~> (~isRollingRef /\ ~gameState.isSliding)
  /\ <>[]SequencerIdle

\* a slide that had to wait in the queue behind the animation of the early jump has
\* ended
C36_SlideEnded ==
  /\ events = 2
  /\ epoch = 0
  /\ ~isJumpingRef
  /\ jumpVelocityRef = 0
  /\ ~isRollingRef
  /\ ~gameState.isSliding
  /\ SequencerIdle

\* C37: the spacing cursor never increases during play: a step lowers it by 25 for each
\* barrier whose load completes and for each barrier recycled in it, a frame without a
\* recycle and every other step leave it unchanged, and only init and restartGame set
\* it, to -40
CursorStep ==
  IF initPc' /= initPc \/ epoch' /= epoch
  THEN lastBarrierZ' = -40000
  ELSE LET loaded == Len(barriers') - Len(barriers)
           recycled == {i \in 1..Len(barriers) : barriers'[i].z < barriers[i].z}
       IN /\ loaded >= 0
          /\ lastBarrierZ' = lastBarrierZ - 25000 * (loaded + Cardinality(recycled))
          /\ (ticks' = ticks + 1) => loaded = 0

C37_CursorNeverIncreases == [][CursorStep]_vars

\* a load completion and then a recycle have each lowered the cursor by 25
C37_LoweredByLoadAndRecycle ==
  /\ epoch = 0
  /\ ticks >= 1
  /\ Len(barriers) = 1
  /\ barriers[1].z < -40000
  /\ lastBarrierZ = -40000 - 2 * 25000

\* C38: the frame loop's flag gameActiveRef and the active field of the React state
\* agree in every state: both false after a collision, both true after a restart, and
\* neither restart nor exit leaves one true and the other false
C38_ActiveFlagsAgree == gameActiveRef = gameState.active

====
